---------------------------- MODULE Spec2Model ----------------------------
(***************************************************************************)
(* Osteoflow desktop data layer (desktop/src-tauri/src): the profile       *)
(* catalog (profile.rs), the mutex-guarded session slot (state.rs), the    *)
(* encrypted per-profile store (db.rs) and the six commands of main.rs,    *)
(* run by the worker threads of the host application.                      *)
(*                                                                         *)
(* Two specifications share the actions: Spec starts from a catalog of     *)
(* profiles that create_profile wrote and runs open_profile and the three  *)
(* patient commands; CatalogSpec starts from a fresh installation and runs *)
(* list_profiles, create_profile, open_profile and the end of the process. *)
(*                                                                         *)
(* A command is a sequence of steps; each step holds at most one access to *)
(* shared state (the catalog file, a directory, a store, the session slot, *)
(* the clock) together with the thread-local computation around it, so the *)
(* interleavings of the steps are the interleavings of the threads.        *)
(*                                                                         *)
(* Idealisations, stated once:                                             *)
(*  - uuid::Uuid::new_v4 and the 16 bytes of OsRng never repeat: ids come  *)
(*    from counters, and a salt is named by the draw that made it;         *)
(*  - Argon2 is injective on (password, salt, params);                     *)
(*  - Utc::now() read twice gives two different, increasing instants, and  *)
(*    to_rfc3339 keeps their order under the text comparison of SQLite;    *)
(*  - file-system and SQLite calls do not fail for environmental reasons   *)
(*    (full disk, permissions); the process may stop at any step (Crash).  *)
(***************************************************************************)
EXTENDS Naturals, Sequences, FiniteSets, TLC

\* ------------------------------------------------------------------ bounds

\* Profiles create_profile may create in one behaviour.
MaxProfiles == 2
\* Patient records create_patient may create in one behaviour.
MaxPatients == 2
\* Times the process may be killed and started again.
MaxCrashes == 1

\* The worker threads of the command pool.
Threads == {"w1", "w2"}

\* Profile names the UI may send: empty, blank, padded.
Names == {<<>>, <<" ">>, <<" ", "a">>}
\* Passwords the UI may send: empty, blank, and two that differ by a space.
Passwords == {<<>>, <<" ">>, <<"p">>, <<"p", " ">>}
\* Passwords the UI may send to open_profile: each is right for one profile
\* of Init and wrong for the other.
OpenPasswords == {<<"p">>, <<"p", " ">>}
\* Patient forms the UI may send.
PatientInputs == {[first_name |-> "Ann", email |-> <<>>]}

\* ------------------------------------------------------------------ state

VARIABLES
  catalogFile,    \* profiles.json: [exists, wellformed, profiles]
  dataDirExists,  \* the app data directory exists
  profileDirs,    \* ids whose directory profiles/<id> exists
  stores,         \* db_path -> [key, schema, rows] of each store file with content
  active_profile, \* AppState.active_profile: <<>> (None) or <<ActiveProfile>>
  mutex,          \* holder of the Mutex of active_profile, or "free"
  pc,             \* thread -> the step it is at
  local,          \* thread -> the locals of its running command
  response,       \* the response the last step sent to the UI, if it sent one
  clock,          \* the last instant Utc::now() returned
  nextProfileId,  \* uuid source for profiles
  nextPatientId,  \* uuid source for patients
  crashes,        \* times the process was killed
  createdWith,    \* history: profile id -> password given to create_profile
  deleted,        \* history: <<db_path, patient id>> of the rows a DELETE removed
  racy,           \* history: patient ids whose create_patient drew its timestamp
                  \* while another, on the same store, was between its own
                  \* timestamp and its INSERT
  fresh           \* history: <<db_path, patient id, returned>> of the last INSERT
                  \* when no DELETE ran since (returned: its create_patient has
                  \* answered Ok), else <<>>

vars == <<catalogFile, dataDirExists, profileDirs, stores, active_profile, mutex,
          pc, local, response, clock, nextProfileId, nextPatientId, crashes,
          createdWith, deleted, racy, fresh>>

disk == <<catalogFile, dataDirExists, profileDirs, stores>>
hist == <<createdWith, deleted, racy, fresh>>

ProfileIds == 1..(MaxProfiles + 1)
PatientIds == 1..(MaxPatients + 1)

\* --------------------------------------------------------------- helpers

is_whitespace(c) == c = " "

RECURSIVE trim_start(_)
trim_start(s) ==
  IF s # <<>> /\ is_whitespace(Head(s)) THEN trim_start(Tail(s)) ELSE s

RECURSIVE trim_end(_)
trim_end(s) ==
  IF s # <<>> /\ is_whitespace(s[Len(s)]) THEN trim_end(SubSeq(s, 1, Len(s) - 1)) ELSE s

\* str::trim
trim(s) == trim_end(trim_start(s))

\* A mutant of IsBlank: is_empty() without trim().
IsBlankNoTrim(s) == s = <<>>

\* name.trim().is_empty()
IsBlank(s) == trim(s) = <<>>

\* ------------------------------------------------------- CredentialEngine

Argon2Params == [m_cost |-> 19456, t_cost |-> 2, p_cost |-> 1, output_len |-> 32]

\* The Argon2id function itself, shared by hashing and key derivation.
Argon2(password, salt, params) == <<"argon2id", password, salt, params>>

\* The random bytes drawn for purpose what while profile n is created.
OsRng(n, what) == <<"rand", n, what>>

B64Encode(bytes) == <<"b64", bytes>>
B64Decode(text) == text[2]

\* A mutant of hash_password: the trimmed password is hashed.
HashPasswordTrimmed(password, salt, params) ==
  [params |-> params, salt |-> salt, digest |-> Argon2(trim(password), salt, params)]

\* argon2.hash_password(password.as_bytes(), &salt).to_string()
hash_password(password, salt, params) ==
  [params |-> params, salt |-> salt, digest |-> Argon2(password, salt, params)]

\* verify_password: TRUE when Ok(()), FALSE when Err(Auth).
verify_password(profile, password) ==
  LET h == profile.password_hash
  IN  Argon2(password, h.salt, h.params) = h.digest

\* A mutant of derive_key: the salt is not the persisted one alone, it changes
\* with the instant of the call.
DeriveKeyFreshSalt(profile, password) ==
  Argon2(password, <<B64Decode(profile.key_salt_b64), clock>>, profile.argon2_params)

\* derive_key
derive_key(profile, password) ==
  Argon2(password, B64Decode(profile.key_salt_b64), profile.argon2_params)

\* A mutant of summary: the whole StoredProfile is returned.
SummaryWhole(profile) == profile

\* StoredProfile::summary
summary(profile) ==
  [id |-> profile.id, name |-> profile.name, created_at |-> profile.created_at]

\* -------------------------------------------------------- ProfileRegistry

\* A mutant of DbPath: the store is not put in the directory of the profile.
DbPathShared(id) == <<"profiles", 0, "profile.db">>

\* app_data_dir/profiles/<id>/profile.db
DbPath(id) == <<"profiles", id, "profile.db">>
\* The profile whose directory holds the store at path.
DirOf(path) == path[2]

NoFile == [exists |-> FALSE, wellformed |-> FALSE, profiles |-> <<>>]
\* The file between File::create (truncation) and the end of write_all.
TruncatedFile == [exists |-> TRUE, wellformed |-> FALSE, profiles |-> <<>>]
WrittenFile(profiles) == [exists |-> TRUE, wellformed |-> TRUE, profiles |-> profiles]

\* A mutant of load_profiles: a malformed catalog reads as an empty one.
LoadProfilesLenient(file) ==
  IF ~file.exists \/ ~file.wellformed THEN [ok |-> TRUE, profiles |-> <<>>]
  ELSE [ok |-> TRUE, profiles |-> file.profiles]

\* load_profiles: [ok, profiles]
load_profiles(file) ==
  IF ~file.exists THEN [ok |-> TRUE, profiles |-> <<>>]
  ELSE IF ~file.wellformed THEN [ok |-> FALSE, profiles |-> <<>>]
  ELSE [ok |-> TRUE, profiles |-> file.profiles]

\* profiles.into_iter().find(|p| p.id == profile_id): <<>> or <<profile>>
FindProfile(profiles, profile_id) ==
  LET hits == {i \in 1..Len(profiles) : profiles[i].id = profile_id}
  IN  IF hits = {} THEN <<>>
      ELSE <<profiles[CHOOSE i \in hits : \A j \in hits : i <= j]>>

\* The StoredProfile create_profile builds (lines 93-130).
NewStoredProfile(id, name, password, now) ==
  [id |-> id,
   name |-> trim(name),
   created_at |-> now,
   db_path |-> DbPath(id),
   password_hash |-> hash_password(password, OsRng(id, "hash"), Argon2Params),
   key_salt_b64 |-> B64Encode(OsRng(id, "key")),
   argon2_params |-> Argon2Params]

\* --------------------------------------------------------- EncryptedStore

\* A store file with content: the key it was encrypted with when it was
\* created, whether the patients table exists, and the rows in insertion order.
NewStore(key) == [key |-> key, schema |-> FALSE, rows |-> <<>>]

\* Connection::open: the handle; SQLite creates the file lazily, provided the
\* directory exists.
ConnectionOpen(dirs, path) ==
  [ok |-> DirOf(path) \in dirs,
   conn |-> [path |-> path, key |-> <<>>, log |-> <<"open">>]]

\* apply_key: PRAGMA key = "x'<hex>'"; the key is taken, not checked.
apply_key(conn, key) ==
  [conn EXCEPT !.key = <<key>>, !.log = Append(@, "key")]

\* PRAGMA foreign_keys = ON
ForeignKeysOn(conn) == [conn EXCEPT !.log = Append(@, "foreign_keys")]

\* What the pages of the store decrypt to under the key of the handle: a new
\* (empty) file takes the key, an existing one needs the key it was made with.
Readable(db, conn) ==
  /\ conn.key # <<>>
  /\ conn.path \in DOMAIN db => db[conn.path].key = conn.key[1]

\* A mutant of init_schema: the table is not created.
InitSchemaSkipped(db, conn) ==
  [ok |-> Readable(db, conn),
   db |-> IF conn.path \in DOMAIN db THEN db
          ELSE db @@ (conn.path :> NewStore(conn.key[1])),
   conn |-> [conn EXCEPT !.log = Append(@, "schema")]]

\* init_schema: CREATE TABLE IF NOT EXISTS patients, the first statement that
\* reads the file: [ok, db, conn]
init_schema(db, conn) ==
  IF ~Readable(db, conn)
  THEN [ok |-> FALSE, db |-> db, conn |-> conn]
  ELSE LET old == IF conn.path \in DOMAIN db THEN db[conn.path]
                  ELSE NewStore(conn.key[1])
           new == [old EXCEPT !.schema = TRUE]
       IN  [ok |-> TRUE,
            db |-> [q \in DOMAIN db \cup {conn.path} |->
                      IF q = conn.path THEN new ELSE db[q]],
            conn |-> [conn EXCEPT !.log = Append(@, "schema")]]

\* A mutant of open_connection: PRAGMA foreign_keys runs before apply_key.
OpenConnectionKeyLate(db, dirs, path, key) ==
  LET opened == ConnectionOpen(dirs, path)
  IN  IF ~opened.ok
      THEN [ok |-> FALSE, db |-> db, conn |-> opened.conn]
      ELSE init_schema(db, apply_key(ForeignKeysOn(opened.conn), key))

\* open_connection: [ok, db, conn]
open_connection(db, dirs, path, key) ==
  LET opened == ConnectionOpen(dirs, path)
  IN  IF ~opened.ok
      THEN [ok |-> FALSE, db |-> db, conn |-> opened.conn]
      ELSE init_schema(db, ForeignKeysOn(apply_key(opened.conn, key)))

\* A statement on the patients table can run.
CanRun(db, conn) ==
  /\ conn.path \in DOMAIN db
  /\ Readable(db, conn)
  /\ db[conn.path].schema

RECURSIVE InsertDesc(_, _)
\* Row r put into a sequence ordered by created_at, greatest first; rows with
\* the same created_at keep their insertion order.
InsertDesc(sorted, r) ==
  IF sorted = <<>> THEN <<r>>
  ELSE IF Head(sorted).created_at >= r.created_at
       THEN <<Head(sorted)>> \o InsertDesc(Tail(sorted), r)
       ELSE <<r>> \o sorted

RECURSIVE OrderByCreatedAtDesc(_)
\* ORDER BY created_at DESC
OrderByCreatedAtDesc(rows) ==
  IF rows = <<>> THEN <<>>
  ELSE InsertDesc(OrderByCreatedAtDesc(SubSeq(rows, 1, Len(rows) - 1)), rows[Len(rows)])

\* A mutant of list_patients: the SELECT has no ORDER BY.
ListPatientsRowsUnordered(db, conn) ==
  IF ~CanRun(db, conn) THEN [ok |-> FALSE, rows |-> <<>>]
  ELSE [ok |-> TRUE, rows |-> db[conn.path].rows]

\* db::list_patients: [ok, rows]
list_patients(db, conn) ==
  IF ~CanRun(db, conn) THEN [ok |-> FALSE, rows |-> <<>>]
  ELSE [ok |-> TRUE, rows |-> OrderByCreatedAtDesc(db[conn.path].rows)]

\* The row create_patient inserts (lines 74-90).
NewPatient(id, input, now) ==
  [id |-> id, first_name |-> input.first_name, email |-> input.email,
   created_at |-> now, updated_at |-> now]

\* INSERT INTO patients: [ok, db]; id is the primary key.
InsertPatient(db, conn, patient) ==
  IF ~CanRun(db, conn) \/ \E i \in 1..Len(db[conn.path].rows) :
                             db[conn.path].rows[i].id = patient.id
  THEN [ok |-> FALSE, db |-> db]
  ELSE [ok |-> TRUE, db |-> [db EXCEPT ![conn.path].rows = Append(@, patient)]]

\* get_patient: [ok, found], found being <<>> or <<row>>
get_patient(db, conn, patient_id) ==
  IF ~CanRun(db, conn) THEN [ok |-> FALSE, found |-> <<>>]
  ELSE [ok |-> TRUE,
        found |-> SelectSeq(db[conn.path].rows, LAMBDA r : r.id = patient_id)]

\* A mutant of DeleteRows: the DELETE has no WHERE clause.
DeleteRowsAll(rows, patient_id) == <<>>

\* DELETE FROM patients WHERE id = ?1
DeleteRows(rows, patient_id) == SelectSeq(rows, LAMBDA r : r.id # patient_id)

\* db::delete_patient: [ok, db]
delete_patient(db, conn, patient_id) ==
  IF ~CanRun(db, conn) THEN [ok |-> FALSE, db |-> db]
  ELSE [ok |-> TRUE,
        db |-> [db EXCEPT ![conn.path].rows = DeleteRows(@, patient_id)]]

\* ------------------------------------------------------------- responses

\* A response as the UI receives it (the AppError variant is kind, the string
\* that crosses the command boundary is msg), with the thread that sent it, the
\* request it answers, the place the command returned from and the store the
\* command ran on.
Ok(cmd, req, value, at) ==
  [cmd |-> cmd, req |-> req, ok |-> TRUE, kind |-> "Ok", msg |-> "",
   stage |-> "done", value |-> value, at |-> at]
Err(cmd, req, kind, msg, stage) ==
  [cmd |-> cmd, req |-> req, ok |-> FALSE, kind |-> kind, msg |-> msg,
   stage |-> stage, value |-> <<>>, at |-> <<>>]
NoResponse ==
  [to |-> "", cmd |-> "", req |-> <<>>, ok |-> FALSE, kind |-> "", msg |-> "",
   stage |-> "", value |-> <<>>, at |-> <<>>]

NoLocal == [cmd |-> ""]

\* The command of thread t returns r: its frame is dropped.
Return(t, r) ==
  /\ response' = [to |-> t] @@ r
  /\ pc' = [pc EXCEPT ![t] = "idle"]
  /\ local' = [local EXCEPT ![t] = NoLocal]

\* Thread t goes on to step p with locals l.
Goto(t, p, l) ==
  /\ pc' = [pc EXCEPT ![t] = p]
  /\ local' = [local EXCEPT ![t] = l]
  /\ response' = NoResponse

\* ------------------------------------------------- list_profiles (main.rs)

list_profiles(t) ==
  /\ pc[t] = "idle"
  /\ LET loaded == load_profiles(catalogFile)
     IN  IF loaded.ok
         THEN Return(t, Ok("list_profiles", <<>>,
                [i \in 1..Len(loaded.profiles) |-> summary(loaded.profiles[i])], <<>>))
         ELSE Return(t, Err("list_profiles", <<>>, "Io", "json", "load"))
  /\ UNCHANGED <<disk, active_profile, mutex, clock, nextProfileId, nextPatientId,
                 crashes, hist>>

\* ---------------------------------------------- create_profile (profile.rs)

\* Lines 84-116 and 122-130: validation, load_profiles, and the values of the
\* new StoredProfile, all of them local but the read of the catalog.
CreateProfileBegin(t, name, password) ==
  /\ pc[t] = "idle"
  /\ LET req == [name |-> name, password |-> password]
         loaded == load_profiles(catalogFile)
         id == nextProfileId
         stored == NewStoredProfile(id, name, password, clock + 1)
     IN  IF IsBlank(name)
         THEN /\ Return(t, Err("create_profile", req, "Validation",
                               "Le nom du profil est requis", "validate"))
              /\ UNCHANGED <<clock, nextProfileId, createdWith>>
         ELSE IF IsBlank(password)
         THEN /\ Return(t, Err("create_profile", req, "Validation",
                               "Le mot de passe est requis", "validate"))
              /\ UNCHANGED <<clock, nextProfileId, createdWith>>
         ELSE IF ~loaded.ok
         THEN /\ Return(t, Err("create_profile", req, "Io", "json", "load"))
              /\ UNCHANGED <<clock, nextProfileId, createdWith>>
         ELSE /\ nextProfileId <= MaxProfiles
              /\ Goto(t, "cp_mkdir", [cmd |-> "create_profile", req |-> req,
                                      profiles |-> loaded.profiles, stored |-> stored])
              /\ clock' = clock + 1
              /\ nextProfileId' = nextProfileId + 1
              /\ createdWith' = createdWith @@ (id :> password)
  /\ UNCHANGED <<disk, active_profile, mutex, nextPatientId, crashes, deleted,
                 racy, fresh>>

\* Line 119: fs::create_dir_all(app_data_dir/profiles/<id>).
CreateProfileMkdir(t) ==
  /\ pc[t] = "cp_mkdir"
  /\ dataDirExists' = TRUE
  /\ profileDirs' = profileDirs \cup {local[t].stored.id}
  /\ Goto(t, "cp_trunc", local[t])
  /\ UNCHANGED <<catalogFile, stores, active_profile, mutex, clock, nextProfileId,
                 nextPatientId, crashes, hist>>

\* save_profiles up to the first half of fs::write: ensure_parent, the
\* serialisation, and File::create, which truncates profiles.json.
SaveProfilesTruncate(t) ==
  /\ pc[t] = "cp_trunc"
  /\ dataDirExists' = TRUE
  /\ catalogFile' = TruncatedFile
  /\ Goto(t, "cp_write", local[t])
  /\ UNCHANGED <<profileDirs, stores, active_profile, mutex, clock, nextProfileId,
                 nextPatientId, crashes, hist>>

\* The second half of fs::write (write_all of the whole catalog), then Ok(stored).
SaveProfilesWrite(t) ==
  /\ pc[t] = "cp_write"
  /\ catalogFile' = WrittenFile(Append(local[t].profiles, local[t].stored))
  /\ Return(t, Ok("create_profile", local[t].req, <<summary(local[t].stored)>>, <<>>))
  /\ UNCHANGED <<dataDirExists, profileDirs, stores, active_profile, mutex, clock,
                 nextProfileId, nextPatientId, crashes, hist>>

\* ------------------------------------------------- open_profile (main.rs)

\* Lines 42-46: load_profiles and find.
OpenProfileLoad(t, profile_id, password) ==
  /\ pc[t] = "idle"
  /\ LET req == [profile_id |-> profile_id, password |-> password]
         loaded == load_profiles(catalogFile)
         found == FindProfile(loaded.profiles, profile_id)
     IN  IF ~loaded.ok
         THEN Return(t, Err("open_profile", req, "Io", "json", "load"))
         ELSE IF found = <<>>
         THEN Return(t, Err("open_profile", req, "NotFound", "Profil introuvable", "find"))
         ELSE Goto(t, "op_verify", [cmd |-> "open_profile", req |-> req,
                                    profile |-> found[1]])
  /\ UNCHANGED <<disk, active_profile, mutex, clock, nextProfileId, nextPatientId,
                 crashes, hist>>

\* verify_password, line 152: map_err(|_| AppError::Auth("Mot de passe incorrect"))
WrongPasswordFailure == [kind |-> "Auth", msg |-> "Mot de passe incorrect"]

\* A mutant of OpenProfileVerify: a refused password closes the session.
OpenProfileVerifyClosing(t) ==
  /\ pc[t] = "op_verify"
  /\ LET l == local[t]
     IN  IF ~verify_password(l.profile, l.req.password)
         THEN /\ Return(t, Err("open_profile", l.req, WrongPasswordFailure.kind,
                               WrongPasswordFailure.msg, "verify"))
              /\ active_profile' = <<>>
         ELSE /\ Goto(t, "op_conn", l @@ [key |-> derive_key(l.profile, l.req.password)])
              /\ UNCHANGED active_profile
  /\ UNCHANGED <<disk, mutex, clock, nextProfileId, nextPatientId, crashes, hist>>

\* Lines 48-49: verify_password and derive_key, the two runs of the KDF.
OpenProfileVerify(t) ==
  /\ pc[t] = "op_verify"
  /\ LET l == local[t]
     IN  IF ~verify_password(l.profile, l.req.password)
         THEN Return(t, Err("open_profile", l.req, WrongPasswordFailure.kind,
                            WrongPasswordFailure.msg, "verify"))
         ELSE Goto(t, "op_conn", l @@ [key |-> derive_key(l.profile, l.req.password)])
  /\ UNCHANGED <<disk, active_profile, mutex, clock, nextProfileId, nextPatientId,
                 crashes, hist>>

\* Lines 51-52: open_connection on the store of the profile, then drop(conn).
OpenProfileConnect(t) ==
  /\ pc[t] = "op_conn"
  /\ LET l == local[t]
         opened == open_connection(stores, profileDirs, l.profile.db_path, l.key)
     IN  /\ stores' = opened.db
         /\ IF ~opened.ok
            THEN Return(t, Err("open_profile", l.req, "Database", "sqlite", "connect"))
            ELSE Goto(t, "op_lock", l)
  /\ UNCHANGED <<catalogFile, dataDirExists, profileDirs, active_profile, mutex, clock,
                 nextProfileId, nextPatientId, crashes, hist>>

\* Line 54: state.active_profile.lock()
OpenProfileLock(t) ==
  /\ pc[t] = "op_lock"
  /\ mutex = "free"
  /\ mutex' = t
  /\ Goto(t, "op_set", local[t])
  /\ UNCHANGED <<disk, active_profile, clock, nextProfileId, nextPatientId,
                 crashes, hist>>

\* A mutant of Install: a session that is already open is kept.
InstallIfEmpty(slot, session) == IF slot = <<>> THEN <<session>> ELSE slot

\* Line 55: *guard = Some(ActiveProfile {..})
Install(slot, session) == <<session>>

\* Lines 55-61: the slot is replaced, the summary returned, the guard dropped.
OpenProfileInstall(t) ==
  /\ pc[t] = "op_set"
  /\ mutex = t
  /\ LET l == local[t]
     IN  /\ active_profile' = Install(active_profile,
                                [id |-> l.profile.id, db_path |-> l.profile.db_path,
                                 key |-> l.key])
         /\ Return(t, Ok("open_profile", l.req, <<summary(l.profile)>>,
                         l.profile.db_path))
  /\ mutex' = "free"
  /\ UNCHANGED <<disk, clock, nextProfileId, nextPatientId, crashes, hist>>

\* ------------------------------------- the patient commands (main.rs, db.rs)

\* Threads inside create_patient that have not drawn their uuid yet.
PendingCreates ==
  {u \in Threads : pc[u] \in {"d_clone", "d_conn", "d_now"}
                   /\ local[u].cmd = "create_patient"}

\* get_active_profile, line 13: state.active_profile.lock(), first statement of
\* list_patients.
ListPatientsBegin(t) ==
  /\ pc[t] = "idle"
  /\ mutex = "free"
  /\ mutex' = t
  /\ Goto(t, "d_clone", [cmd |-> "list_patients", req |-> <<>>])
  /\ UNCHANGED <<disk, active_profile, clock, nextProfileId, nextPatientId,
                 crashes, hist>>

\* The same, first statement of create_patient.
CreatePatientBegin(t, patient) ==
  /\ pc[t] = "idle"
  /\ mutex = "free"
  /\ nextPatientId + Cardinality(PendingCreates) <= MaxPatients
  /\ mutex' = t
  /\ Goto(t, "d_clone", [cmd |-> "create_patient", req |-> [patient |-> patient]])
  /\ UNCHANGED <<disk, active_profile, clock, nextProfileId, nextPatientId,
                 crashes, hist>>

\* The same, first statement of delete_patient.
DeletePatientBegin(t, patient_id) ==
  /\ pc[t] = "idle"
  /\ mutex = "free"
  /\ mutex' = t
  /\ Goto(t, "d_clone", [cmd |-> "delete_patient", req |-> [patient_id |-> patient_id]])
  /\ UNCHANGED <<disk, active_profile, clock, nextProfileId, nextPatientId,
                 crashes, hist>>

\* A mutant of CurrentSession: no session reads as an empty one.
CurrentSessionOrDefault(slot) ==
  IF slot = <<>> THEN <<[id |-> 0, db_path |-> DbPath(0), key |-> <<>>]>> ELSE slot

\* get_active_profile, line 14: guard.clone(); <<>> stands for the Auth error.
CurrentSession(slot) == slot

\* A mutant of GuardAfterClone: the guard outlives get_active_profile.
GuardKept(t) == t

\* The holder of the mutex once get_active_profile has returned: guard is a
\* local of that function and is dropped with it.
GuardAfterClone(t) == "free"

\* ok_or_else(|| AppError::Auth("Aucun profil ouvert"))
NoSessionFailure == [kind |-> "Auth", msg |-> "Aucun profil ouvert"]

\* A mutant of get_active_profile: guard.take() in place of guard.clone(), the
\* session moves out of the slot.
GetActiveProfileTake(t) ==
  /\ pc[t] = "d_clone"
  /\ mutex = t
  /\ mutex' = GuardAfterClone(t)
  /\ active_profile' = <<>>
  /\ LET l == local[t]
         current == CurrentSession(active_profile)
     IN  IF current = <<>>
         THEN Return(t, Err(l.cmd, l.req, NoSessionFailure.kind, NoSessionFailure.msg,
                            "session"))
         ELSE Goto(t, "d_conn", l @@ [active |-> current[1]])
  /\ UNCHANGED <<disk, clock, nextProfileId, nextPatientId, crashes, hist>>

\* get_active_profile, line 14 and the drop of the guard.
get_active_profile(t) ==
  /\ pc[t] = "d_clone"
  /\ mutex = t
  /\ mutex' = GuardAfterClone(t)
  /\ LET l == local[t]
         current == CurrentSession(active_profile)
     IN  IF current = <<>>
         THEN Return(t, Err(l.cmd, l.req, NoSessionFailure.kind, NoSessionFailure.msg,
                            "session"))
         ELSE Goto(t, "d_conn", l @@ [active |-> current[1]])
  /\ UNCHANGED <<disk, active_profile, clock, nextProfileId, nextPatientId,
                 crashes, hist>>

\* The step after open_connection in each command.
Statement(cmd) ==
  CASE cmd = "list_patients" -> "d_list"
    [] cmd = "create_patient" -> "d_now"
    [] cmd = "delete_patient" -> "d_delete"

\* A mutant of DataConnect: the key is read from the slot again when the store
\* is opened, not taken from the session the command cloned.
DataConnectKeyFromSlot(t) ==
  /\ pc[t] = "d_conn"
  /\ LET l == local[t]
         opened == open_connection(stores, profileDirs, l.active.db_path,
                                   active_profile[1].key)
     IN  /\ stores' = opened.db
         /\ IF ~opened.ok
            THEN Return(t, Err(l.cmd, l.req, "Database", "sqlite", "connect"))
            ELSE Goto(t, Statement(l.cmd), l @@ [conn |-> opened.conn])
  /\ UNCHANGED <<catalogFile, dataDirExists, profileDirs, active_profile, mutex, clock,
                 nextProfileId, nextPatientId, crashes, hist>>

\* db::open_connection(&active.db_path, &active.key), second statement of the
\* three commands.
DataConnect(t) ==
  /\ pc[t] = "d_conn"
  /\ LET l == local[t]
         opened == open_connection(stores, profileDirs, l.active.db_path, l.active.key)
     IN  /\ stores' = opened.db
         /\ IF ~opened.ok
            THEN Return(t, Err(l.cmd, l.req, "Database", "sqlite", "connect"))
            ELSE Goto(t, Statement(l.cmd), l @@ [conn |-> opened.conn])
  /\ UNCHANGED <<catalogFile, dataDirExists, profileDirs, active_profile, mutex, clock,
                 nextProfileId, nextPatientId, crashes, hist>>

\* db::list_patients
ListPatientsStmt(t) ==
  /\ pc[t] = "d_list"
  /\ LET l == local[t]
         listed == list_patients(stores, l.conn)
     IN  IF ~listed.ok
         THEN Return(t, Err(l.cmd, l.req, "Database", "sqlite", "statement"))
         ELSE Return(t, Ok(l.cmd, l.req, listed.rows, l.conn.path))
  /\ UNCHANGED <<disk, active_profile, mutex, clock, nextProfileId, nextPatientId,
                 crashes, hist>>

\* db::create_patient, lines 74-75: the uuid and Utc::now().
CreatePatientNow(t) ==
  /\ pc[t] = "d_now"
  /\ LET l == local[t]
         patient == NewPatient(nextPatientId, l.req.patient, clock + 1)
         others == {u \in Threads \ {t} :
                      pc[u] = "d_insert" /\ local[u].conn.path = l.conn.path}
     IN  /\ Goto(t, "d_insert", l @@ [patient |-> patient])
         /\ racy' = IF others = {} THEN racy
                    ELSE racy \cup {patient.id} \cup {local[u].patient.id : u \in others}
  /\ clock' = clock + 1
  /\ nextPatientId' = nextPatientId + 1
  /\ UNCHANGED <<disk, active_profile, mutex, nextProfileId, crashes, createdWith,
                 deleted, fresh>>

\* db::create_patient, lines 77-91: the INSERT.
CreatePatientInsert(t) ==
  /\ pc[t] = "d_insert"
  /\ LET l == local[t]
         inserted == InsertPatient(stores, l.conn, l.patient)
     IN  /\ stores' = inserted.db
         /\ IF ~inserted.ok
            THEN Return(t, Err(l.cmd, l.req, "Database", "sqlite", "statement"))
            ELSE Goto(t, "d_get", l)
         /\ fresh' = IF inserted.ok THEN <<l.conn.path, l.patient.id, FALSE>> ELSE fresh
  /\ UNCHANGED <<catalogFile, dataDirExists, profileDirs, active_profile, mutex, clock,
                 nextProfileId, nextPatientId, crashes, createdWith, deleted, racy>>

\* db::create_patient, lines 93-96: the row is read back by get_patient.
CreatePatientGet(t) ==
  /\ pc[t] = "d_get"
  /\ LET l == local[t]
         got == get_patient(stores, l.conn, l.patient.id)
     IN  IF ~got.ok
         THEN Return(t, Err(l.cmd, l.req, "Database", "sqlite", "statement"))
              /\ UNCHANGED fresh
         ELSE IF got.found = <<>>
         THEN Return(t, Err(l.cmd, l.req, "Database",
                            "Impossible de recuperer le patient", "get"))
              /\ UNCHANGED fresh
         ELSE Return(t, Ok(l.cmd, l.req, <<got.found[1]>>, l.conn.path))
              /\ fresh' = IF fresh # <<>> /\ fresh[2] = l.patient.id
                          THEN <<l.conn.path, l.patient.id, TRUE>>
                          ELSE fresh
  /\ UNCHANGED <<disk, active_profile, mutex, clock, nextProfileId, nextPatientId,
                 crashes, createdWith, deleted, racy>>

\* db::delete_patient
DeletePatientStmt(t) ==
  /\ pc[t] = "d_delete"
  /\ LET l == local[t]
         removed == delete_patient(stores, l.conn, l.req.patient_id)
     IN  /\ stores' = removed.db
         /\ IF ~removed.ok
            THEN Return(t, Err(l.cmd, l.req, "Database", "sqlite", "statement"))
            ELSE Return(t, Ok(l.cmd, l.req, <<>>, l.conn.path))
         /\ deleted' = IF removed.db # stores
                       THEN deleted \cup {<<l.conn.path, l.req.patient_id>>}
                       ELSE deleted
  /\ fresh' = <<>>
  /\ UNCHANGED <<catalogFile, dataDirExists, profileDirs, active_profile, mutex, clock,
                 nextProfileId, nextPatientId, crashes, createdWith, racy>>

\* ----------------------------------------------------------- the process

\* The process is killed and started again: memory is lost, the disk stays.
Crash ==
  /\ crashes < MaxCrashes
  /\ crashes' = crashes + 1
  /\ active_profile' = <<>>
  /\ mutex' = "free"
  /\ pc' = [t \in Threads |-> "idle"]
  /\ local' = [t \in Threads |-> NoLocal]
  /\ response' = NoResponse
  /\ UNCHANGED <<disk, clock, nextProfileId, nextPatientId, hist>>

\* main: AppState::default() on a fresh installation.
InitInstall ==
  /\ catalogFile = NoFile
  /\ dataDirExists = FALSE
  /\ profileDirs = {}
  /\ stores = <<>>
  /\ active_profile = <<>>
  /\ mutex = "free"
  /\ pc = [t \in Threads |-> "idle"]
  /\ local = [t \in Threads |-> NoLocal]
  /\ response = NoResponse
  /\ clock = 0
  /\ nextProfileId = 1
  /\ nextPatientId = 1
  /\ crashes = 0
  /\ createdWith = <<>>
  /\ deleted = {}
  /\ racy = {}
  /\ fresh = <<>>

\* The password profile id was created with in the catalog Init starts from.
CreationPassword(id) == IF id % 2 = 1 THEN <<"p">> ELSE <<"p", " ">>

\* main: AppState::default() on an installation where create_profile has run
\* MaxProfiles times, one call after the other, and no profile was opened yet.
Init ==
  /\ catalogFile = WrittenFile([i \in 1..MaxProfiles |->
                     NewStoredProfile(i, <<" ", "a">>, CreationPassword(i), i)])
  /\ dataDirExists = TRUE
  /\ profileDirs = 1..MaxProfiles
  /\ stores = <<>>
  /\ active_profile = <<>>
  /\ mutex = "free"
  /\ pc = [t \in Threads |-> "idle"]
  /\ local = [t \in Threads |-> NoLocal]
  /\ response = NoResponse
  /\ clock = MaxProfiles
  /\ nextProfileId = MaxProfiles + 1
  /\ nextPatientId = 1
  /\ crashes = 0
  /\ createdWith = [i \in 1..MaxProfiles |-> CreationPassword(i)]
  /\ deleted = {}
  /\ racy = {}
  /\ fresh = <<>>

OpenProfileSteps(t) ==
  \/ \E profile_id \in ProfileIds, password \in OpenPasswords :
       OpenProfileLoad(t, profile_id, password)
  \/ OpenProfileVerify(t)
  \/ OpenProfileConnect(t)
  \/ OpenProfileLock(t)
  \/ OpenProfileInstall(t)

Next ==
  \E t \in Threads :
    \/ OpenProfileSteps(t)
    \/ ListPatientsBegin(t)
    \/ \E patient \in PatientInputs : CreatePatientBegin(t, patient)
    \/ \E patient_id \in PatientIds : DeletePatientBegin(t, patient_id)
    \/ get_active_profile(t)
    \/ DataConnect(t)
    \/ ListPatientsStmt(t)
    \/ CreatePatientNow(t)
    \/ CreatePatientInsert(t)
    \/ CreatePatientGet(t)
    \/ DeletePatientStmt(t)

\* open_profile and the patient commands on the worker pool.
Spec == Init /\ [][Next]_vars

CatalogNext ==
  \/ \E t \in Threads :
       \/ list_profiles(t)
       \/ \E name \in Names, password \in Passwords :
            CreateProfileBegin(t, name, password)
       \/ CreateProfileMkdir(t)
       \/ SaveProfilesTruncate(t)
       \/ SaveProfilesWrite(t)
       \/ OpenProfileSteps(t)
  \/ Crash

\* list_profiles, create_profile and open_profile on the worker pool of a
\* process that may be killed.
CatalogSpec == InitInstall /\ [][CatalogNext]_vars

\* ================================================================ claims

DataCommands == {"list_patients", "create_patient", "delete_patient"}

\* Thread t takes a step of its command.
Steps(t) == pc'[t] # pc[t] /\ crashes' = crashes

\* Empty or made of spaces only.
AllSpaces(s) == \A i \in 1..Len(s) : s[i] = " "

\* The ids of the rows of a table.
RowIds(rows) == {rows[i].id : i \in 1..Len(rows)}

\* C1: while the session slot is empty, list_patients, create_patient and
\* delete_patient each return the Auth error "Aucun profil ouvert" (never a
\* success or an empty result) from get_active_profile, and neither the lock
\* nor the read of the slot opens or changes a store or any other file.
C1_NoSessionIsAuthError ==
  [][\A t \in Threads :
       /\ (pc[t] = "idle" /\ pc'[t] = "d_clone") =>
            /\ local'[t].cmd \in DataCommands
            /\ UNCHANGED disk
       /\ (pc[t] = "d_clone" /\ Steps(t) /\ active_profile = <<>>) =>
            /\ pc'[t] = "idle"
            /\ response'.to = t
            /\ response'.cmd = local[t].cmd
            /\ ~response'.ok
            /\ response'.kind = "Auth"
            /\ response'.value = <<>>
            /\ UNCHANGED disk]_vars

\* C1 witness: delete_patient was answered with the Auth error, no session,
\* no store.
C1_Witness ==
  /\ response.cmd = "delete_patient"
  /\ response.kind = "Auth"
  /\ active_profile = <<>>
  /\ stores = <<>>

\* The session open_profile builds from the profile it found and the key it derived.
SessionOf(l) == [id |-> l.profile.id, db_path |-> l.profile.db_path, key |-> l.key]

\* Store q is the same before and after the step.
SameStore(q) ==
  IF q \in DOMAIN stores THEN q \in DOMAIN stores' /\ stores'[q] = stores[q]
  ELSE q \notin DOMAIN stores'

\* C2: the last step of a successful open_profile puts its own session in the
\* slot whatever the slot held (no "already open" error); nothing else changes
\* the slot; a patient command takes as its session the slot as it is when it
\* reads it, and from then on opens, reads and writes the store of that
\* session only.
C2_OpenReplacesSession ==
  [][/\ \A t \in Threads :
          /\ (pc[t] = "op_set" /\ Steps(t)) =>
               /\ active_profile' = <<SessionOf(local[t])>>
               /\ response'.ok /\ response'.to = t
               /\ response'.value = <<summary(local[t].profile)>>
          /\ (pc[t] = "d_clone" /\ Steps(t) /\ active_profile # <<>>) =>
               /\ pc'[t] = "d_conn"
               /\ local'[t].active = active_profile[1]
          /\ (pc[t] \in {"d_conn", "d_list", "d_now", "d_insert", "d_get", "d_delete"}
              /\ Steps(t)) =>
               /\ \A id \in ProfileIds :
                    DbPath(id) # local[t].active.db_path => SameStore(DbPath(id))
               /\ response'.at \in {<<>>, local[t].active.db_path}
               /\ pc'[t] # "idle" => local'[t].active = local[t].active
               /\ pc[t] # "d_conn" => local[t].conn.path = local[t].active.db_path
     /\ active_profile' # active_profile => \E t \in Threads : pc[t] = "op_set" /\ Steps(t)
    ]_vars

\* C2 witness: profile 1 was active (its store holds a record), profile 2 was
\* opened after it, and a create_patient has just written the store of 2.
C2_Witness ==
  /\ active_profile # <<>> /\ active_profile[1].id = 2
  /\ DbPath(1) \in DOMAIN stores /\ stores[DbPath(1)].rows # <<>>
  /\ response.cmd = "create_patient" /\ response.ok
  /\ response.at = DbPath(2)

\* C3: open_profile gets past verify_password exactly when the password it
\* was given is the one create_profile was given for that profile; with any
\* other password it returns the Auth error.
C3_VerifyIffCreationPassword ==
  [][\A t \in Threads :
       (pc[t] = "op_verify" /\ Steps(t)) =>
          IF local[t].req.password = createdWith[local[t].profile.id]
          THEN pc'[t] = "op_conn"
          ELSE /\ pc'[t] = "idle"
               /\ response'.to = t /\ ~response'.ok /\ response'.kind = "Auth"]_vars

\* C3 witness: one open_profile passed with a creation password that ends in a
\* space while another has just been refused.
C3_Witness ==
  /\ \E t \in Threads :
       /\ pc[t] = "op_conn"
       /\ local[t].req.password = <<"p", " ">>
       /\ createdWith[local[t].profile.id] = <<"p", " ">>
  /\ response.cmd = "open_profile" /\ response.stage = "verify"

\* C4: create_profile given a name or a password that is empty or all spaces
\* returns a Validation error in its first step and leaves the catalog file,
\* the data directory, the profile directories and the stores as they were.
C4_BlankInputRejectedBeforeIo ==
  [][\A t \in Threads, name \in Names, password \in Passwords :
       (CreateProfileBegin(t, name, password) /\ (AllSpaces(name) \/ AllSpaces(password))) =>
          /\ pc'[t] = "idle"
          /\ response'.to = t /\ ~response'.ok /\ response'.kind = "Validation"
          /\ UNCHANGED disk
          /\ UNCHANGED <<nextProfileId, clock>>]_vars

\* C4 witness: a name of one space was refused on a fresh installation.
C4_Witness ==
  /\ response.cmd = "create_profile" /\ response.kind = "Validation"
  /\ response.req.name = <<" ">>
  /\ response.req.password = <<"p">>
  /\ catalogFile = NoFile /\ ~dataDirExists /\ profileDirs = {}

\* Entry e can be read back from the catalog file.
ReadableEntry(file, e) ==
  /\ load_profiles(file).ok
  /\ \E j \in 1..Len(load_profiles(file).profiles) : load_profiles(file).profiles[j] = e

\* C5 (as claimed): when the process is killed while create_profile writes the
\* catalog, every entry the catalog held when the call loaded it can still be
\* read from the file afterwards.
C5_CrashKeepsEntries ==
  [][crashes' = crashes + 1 =>
       \A t \in Threads :
         pc[t] \in {"cp_trunc", "cp_write"} =>
           \A i \in 1..Len(local[t].profiles) :
             ReadableEntry(catalogFile', local[t].profiles[i])]_vars

\* The steps that open a store or run a statement on one, and those that run
\* the KDF.
StorageSteps == {"op_conn", "d_conn", "d_list", "d_now", "d_insert", "d_get", "d_delete"}
KdfSteps == {"op_verify"}

\* C6: a thread holds the session mutex only between its lock() and the read
\* (get_active_profile) or the replacement (open_profile) of the slot that
\* follows; no thread about to open a store, run a statement or run the KDF
\* holds it.
C6_MutexOnlyAroundSlot ==
  /\ mutex \in Threads \cup {"free"}
  /\ \A t \in Threads :
       /\ mutex = t => pc[t] \in {"d_clone", "op_set"}
       /\ pc[t] \in StorageSteps \cup KdfSteps \cup {"idle", "op_lock"} => mutex # t

\* C6 witness: one thread holds the mutex to replace the slot while the other
\* is inside a statement on a store.
C6_Witness ==
  \E t, u \in Threads :
    /\ mutex = t /\ pc[t] = "op_set"
    /\ pc[u] = "d_insert"

\* C7 (as claimed): the failure open_profile returns for an id that is not in
\* the catalog is the failure it returns for a wrong password.
C7_OpenFailureHidesExistence ==
  (response.cmd = "open_profile" /\ response.stage = "find") =>
     /\ response.kind = WrongPasswordFailure.kind
     /\ response.msg = WrongPasswordFailure.msg

\* Sequence out holds the rows of the table, each once, greatest created_at first.
OrderedListing(out, rows) ==
  /\ Len(out) = Len(rows)
  /\ \A i \in 1..Len(rows) : \E j \in 1..Len(out) : out[j] = rows[i]
  /\ \A i, j \in 1..Len(out) : i < j => out[i].created_at >= out[j].created_at

\* list_patients has just answered on a store whose last written row is the
\* row of a create_patient that has returned Ok: no INSERT or DELETE ran on any
\* store since that row was inserted.
ListedRightAfterCreate ==
  /\ response.cmd = "list_patients" /\ response.ok
  /\ fresh # <<>> /\ fresh[3] /\ fresh[1] = response.at

C9_DeleteIdempotent ==
  [][/\ \A t \in Threads :
          (pc[t] = "d_delete" /\ Steps(t)) =>
             LET path == local[t].conn.path
                 id == local[t].req.patient_id
                 before == stores[path].rows
                 after == stores'[path].rows
             IN  /\ pc'[t] = "idle"
                 /\ response'.to = t /\ response'.ok /\ response'.cmd = "delete_patient"
                 /\ RowIds(after) = RowIds(before) \ {id}
                 /\ \A i \in 1..Len(before) :
                      before[i].id # id => \E j \in 1..Len(after) : after[j] = before[i]
                 /\ Len(after) = Cardinality(RowIds(after))
                 /\ id \notin RowIds(before) => stores' = stores
                 /\ id \in RowIds(before) => <<path, id>> \in deleted'
                 /\ \A q \in DOMAIN stores : q # path => SameStore(q)
     /\ \A d \in deleted' :
          /\ d[2] \notin RowIds(stores'[d[1]].rows)
          /\ (response'.cmd = "list_patients" /\ response'.at = d[1]) =>
               d[2] \notin RowIds(response'.value)
    ]_vars

\* C9 witness: a delete_patient has just answered Ok for an id that a DELETE
\* had already removed, and the other record of the store is still there.
C9_Witness ==
  /\ response.cmd = "delete_patient" /\ response.ok
  /\ <<response.at, response.req.patient_id>> \in deleted
  /\ stores[response.at].rows # <<>>
  /\ fresh = <<>>

\* C10: open_profile with the creation password gets past verify_password; its
\* open_connection on a store that was never opened creates the store under
\* the derived key with the patients table and no rows; its last step answers
\* Ok with the profile in the slot; and list_patients on a store without rows
\* returns Ok with the empty sequence.
C10_FreshProfileListsNothing ==
  [][\A t \in Threads :
       /\ (pc[t] = "op_verify" /\ Steps(t)
           /\ local[t].req.password = createdWith[local[t].profile.id]) =>
             pc'[t] = "op_conn"
       /\ (pc[t] = "op_conn" /\ Steps(t) /\ local[t].profile.db_path \notin DOMAIN stores) =>
             /\ pc'[t] = "op_lock"
             /\ local[t].profile.db_path \in DOMAIN stores'
             /\ stores'[local[t].profile.db_path] =
                  [key |-> local[t].key, schema |-> TRUE, rows |-> <<>>]
       /\ (pc[t] = "op_set" /\ Steps(t)) =>
             /\ response'.to = t /\ response'.ok /\ response'.cmd = "open_profile"
             /\ active_profile' # <<>> /\ active_profile'[1].id = local[t].profile.id
       /\ (pc[t] = "d_list" /\ Steps(t)) =>
             /\ local[t].active.db_path \in DOMAIN stores
             /\ stores[local[t].active.db_path].rows = <<>> =>
                  /\ response'.to = t /\ response'.ok
                  /\ response'.cmd = "list_patients"
                  /\ response'.value = <<>>]_vars

\* C10 witness: list_patients has just returned the empty sequence for the
\* open profile, and no create_patient ever ran.
C10_Witness ==
  /\ response.cmd = "list_patients" /\ response.ok /\ response.value = <<>>
  /\ active_profile # <<>> /\ response.at = active_profile[1].db_path
  /\ nextPatientId = 1

\* Thread t, idle, starts a command in this step (and may return from it in
\* the same step).
Begins(t) ==
  /\ pc[t] = "idle"
  /\ crashes' = crashes
  /\ pc'[t] # "idle" \/ response'.to = t

\* The catalog file exists and does not parse.
Malformed(file) == file.exists /\ ~file.wellformed

\* C11: while profiles.json exists and is malformed, list_profiles,
\* create_profile and open_profile each return in their first step with an
\* error (Io from load_profiles, or Validation when create_profile refuses its
\* input first), never with Ok, and leave the catalog file, the directories,
\* the stores and the session slot as they were.
C11_MalformedCatalogIsReported ==
  [][\A t \in Threads :
       (Begins(t) /\ Malformed(catalogFile)) =>
          /\ pc'[t] = "idle"
          /\ response'.to = t
          /\ response'.cmd \in {"list_profiles", "create_profile", "open_profile"}
          /\ ~response'.ok
          /\ response'.kind \in {"Io", "Validation"}
          /\ response'.cmd # "create_profile" => response'.kind = "Io"
          /\ response'.value = <<>>
          /\ UNCHANGED disk
          /\ UNCHANGED active_profile]_vars

\* C11 witness: after a kill that left profiles.json truncated, create_profile
\* with valid input was answered with the Io error, the truncated file still
\* in place.
C11_Witness ==
  /\ response.cmd = "create_profile" /\ response.kind = "Io"
  /\ ~IsBlank(response.req.name) /\ ~IsBlank(response.req.password)
  /\ Malformed(catalogFile)
  /\ crashes = 1

ProfileCommands == {"list_profiles", "create_profile", "open_profile"}

\* The fields of ProfileSummary.
SummaryFields == {"id", "name", "created_at"}

\* Value v is a ProfileSummary: an id, a trimmed name and an instant, and
\* nothing else.
IsProfileSummary(v) ==
  /\ DOMAIN v = SummaryFields
  /\ v.id \in ProfileIds
  /\ v.name \in {trim(n) : n \in Names}
  /\ v.created_at \in 1..clock

\* The error texts the three profile commands send: the variant and the text
\* the code puts in it (library texts stand as "json" and "sqlite").
ProfileErrorTexts ==
  {<<"Validation", "Le nom du profil est requis">>,
   <<"Validation", "Le mot de passe est requis">>,
   <<"Io", "json">>,
   <<"NotFound", "Profil introuvable">>,
   <<"Auth", "Mot de passe incorrect">>,
   <<"Database", "sqlite">>}

\* C12: what list_profiles, create_profile and open_profile send back is, on
\* success, a sequence of ProfileSummary values (fields id, name, created_at
\* and no other: no password_hash, key_salt_b64, argon2_params, db_path,
\* password or key), and on failure one of the fixed error texts with no value.
C12_ResponsesCarrySummariesOnly ==
  response.cmd \in ProfileCommands =>
     IF response.ok
     THEN /\ \A i \in 1..Len(response.value) : IsProfileSummary(response.value[i])
          /\ response.cmd # "list_profiles" => Len(response.value) = 1
     ELSE /\ response.value = <<>>
          /\ <<response.kind, response.msg>> \in ProfileErrorTexts

\* C12 witness: list_profiles has just returned the summaries of two profiles
\* whose catalog entries hold a hash, a salt, parameters and a location.
C12_Witness ==
  /\ response.cmd = "list_profiles" /\ response.ok
  /\ Len(response.value) = 2
  /\ \A i \in 1..2 :
       /\ response.value[i] = summary(catalogFile.profiles[i])
       /\ DOMAIN catalogFile.profiles[i] # SummaryFields

\* C13: a step of a command changes the session slot only when it is the last
\* step of an open_profile that answers Ok, and then the slot holds the session
\* of the profile that call found; every step that answers anything else (a
\* failed open_profile, or any answer of the other commands) and every step
\* that answers nothing leaves the slot as it was.
C13_SlotChangedOnlyByOpen ==
  [][crashes' = crashes =>
       /\ active_profile' # active_profile =>
            /\ response'.cmd = "open_profile" /\ response'.ok
            /\ response'.to \in Threads
            /\ pc[response'.to] = "op_set"
            /\ active_profile' = <<SessionOf(local[response'.to])>>
       /\ (response'.cmd = "open_profile" /\ ~response'.ok) => UNCHANGED active_profile
       /\ (response'.cmd \notin {"", "open_profile"}) => UNCHANGED active_profile
       /\ response'.cmd = "" => UNCHANGED active_profile]_vars

\* C13 witness: profile 1 is the session and an open_profile of profile 2 has
\* just been refused for its password.
C13_Witness ==
  /\ active_profile # <<>> /\ active_profile[1].id = 1
  /\ response.cmd = "open_profile" /\ ~response.ok
  /\ response.kind = WrongPasswordFailure.kind
  /\ response.req.profile_id = 2

\* What was done on a handle that open_connection returned, in order.
HandleOrder == <<"open", "key", "foreign_keys", "schema">>

\* The steps of a patient command that run its statement on its handle.
StatementSteps == {"d_list", "d_now", "d_insert", "d_get", "d_delete"}

\* C14: a thread at a statement of a patient command holds a handle on which
\* Connection::open, apply_key, PRAGMA foreign_keys and init_schema ran in that
\* order, the key being the key of the session it read and the path that
\* session's db_path; a thread that has not yet run its own open_connection
\* holds no handle (none is kept from an earlier command); and the
\* open_connection that open_profile is about to run runs the same four steps
\* in the same order with the derived key.
C14_KeyAppliedFirstOnFreshHandle ==
  \A t \in Threads :
    /\ pc[t] \in StatementSteps =>
         /\ local[t].conn.log = HandleOrder
         /\ local[t].conn.key = <<local[t].active.key>>
         /\ local[t].conn.path = local[t].active.db_path
    /\ pc[t] \notin StatementSteps => "conn" \notin DOMAIN local[t]
    /\ pc[t] = "d_conn" =>
         LET o == open_connection(stores, profileDirs, local[t].active.db_path,
                                  local[t].active.key)
         IN  o.ok /\ o.conn.log = HandleOrder /\ o.conn.key = <<local[t].active.key>>
    /\ pc[t] = "op_conn" =>
         LET o == open_connection(stores, profileDirs, local[t].profile.db_path,
                                  local[t].key)
         IN  o.ok /\ o.conn.log = HandleOrder /\ o.conn.key = <<local[t].key>>

\* C14 witness: both threads are at a statement on the same store, each on the
\* handle its own command opened.
C14_Witness ==
  /\ pc["w1"] = "d_insert" /\ pc["w2"] = "d_delete"
  /\ local["w1"].conn.path = local["w2"].conn.path
  /\ local["w1"].conn.log = HandleOrder /\ local["w2"].conn.log = HandleOrder

\* C15: while the process runs, a step taken with a session in the slot leaves
\* a session in the slot; and a patient command is answered with the Auth error
\* "Aucun profil ouvert" only by a step taken with the slot empty, so never
\* after an open_profile has succeeded.
C15_SessionNeverCloses ==
  [][crashes' = crashes =>
       /\ active_profile # <<>> => active_profile' # <<>>
       /\ (response'.cmd \in DataCommands /\ response'.kind = NoSessionFailure.kind
           /\ response'.msg = NoSessionFailure.msg) =>
             /\ active_profile = <<>>
             /\ active_profile' = <<>>]_vars

\* C15 witness: with a session in the slot, an open_profile for an id that is
\* not in the catalog has just failed, and the session is still there.
C15_Witness ==
  /\ active_profile # <<>>
  /\ response.cmd = "open_profile" /\ response.kind = "NotFound"
  /\ DOMAIN stores # {}

\* The key of the store of profile id: Argon2id of the password the profile was
\* created with, the 16 bytes drawn for its key salt and the parameters that
\* create_profile persisted.
StoreKey(id) == Argon2(createdWith[id], OsRng(id, "key"), Argon2Params)

\* C16: every store is encrypted with the key of its profile; the key an
\* open_profile has derived, the key of the session in the slot, the key of
\* the session a patient command has read and the key on a handle are each the
\* key of the profile whose store they are for. So every open of a store, the
\* one that creates it included, applies one and the same key.
C16_OneKeyPerStore ==
  /\ \A q \in DOMAIN stores : stores[q].key = StoreKey(DirOf(q))
  /\ active_profile # <<>> =>
       /\ active_profile[1].db_path = DbPath(active_profile[1].id)
       /\ active_profile[1].key = StoreKey(active_profile[1].id)
  /\ \A t \in Threads :
       /\ pc[t] \in {"op_conn", "op_lock", "op_set"} =>
            local[t].key = StoreKey(local[t].profile.id)
       /\ pc[t] \in {"d_conn"} \cup StatementSteps =>
            local[t].active.key = StoreKey(DirOf(local[t].active.db_path))
       /\ pc[t] \in StatementSteps =>
            local[t].conn.key = <<StoreKey(DirOf(local[t].conn.path))>>

\* C16 witness: an open_profile is about to open, with the key it derived, a
\* store that an earlier open created and that holds a record.
C16_Witness ==
  \E t \in Threads :
    /\ pc[t] = "op_conn"
    /\ local[t].profile.db_path \in DOMAIN stores
    /\ stores[local[t].profile.db_path].rows # <<>>
    /\ stores[local[t].profile.db_path].key = local[t].key

\* The elements of a sequence.
Elements(seq) == {seq[i] : i \in 1..Len(seq)}

\* Every copy of a catalog entry there is: in the file, and in the locals of
\* the commands that loaded the catalog, built an entry or found one.
EntryCopies ==
  Elements(catalogFile.profiles)
  \cup UNION {Elements(local[t].profiles) : t \in {u \in Threads : "profiles" \in DOMAIN local[u]}}
  \cup {local[t].stored : t \in {u \in Threads : "stored" \in DOMAIN local[u]}}
  \cup {local[t].profile : t \in {u \in Threads : "profile" \in DOMAIN local[u]}}

\* C17: the entries of the catalog file have pairwise distinct ids and pairwise
\* distinct db_paths, and two copies of an entry with the same id, wherever
\* they are (the file as it is now, a catalog a command loaded earlier, the
\* entry a command is about to write or has found), are the same entry: its
\* id, created_at and db_path, like its other fields, are those create_profile
\* gave it.
C17_EntriesDistinctAndStable ==
  /\ \A i, j \in 1..Len(catalogFile.profiles) :
       i # j => /\ catalogFile.profiles[i].id # catalogFile.profiles[j].id
                /\ catalogFile.profiles[i].db_path # catalogFile.profiles[j].db_path
  /\ \A e, f \in EntryCopies : e.id = f.id => e = f
  /\ \A e, f \in EntryCopies : e.db_path = f.db_path => e.id = f.id
  /\ \A e \in EntryCopies : e.id \in 1..(nextProfileId - 1) /\ e.created_at \in 1..clock

\* C17 witness: the catalog holds two entries, the second just written by a
\* create_profile that had loaded the first.
C17_Witness ==
  /\ catalogFile.wellformed /\ Len(catalogFile.profiles) = 2
  /\ response.cmd = "create_profile" /\ response.ok
  /\ response.value[1].id = catalogFile.profiles[2].id

\* The profiles whose create_profile has answered Ok, in a process that was
\* never killed: every id drawn so far but those of the calls still running.
ProfilesCreatedOk ==
  (1..(nextProfileId - 1))
  \ {local[t].stored.id : t \in {u \in Threads : pc[u] \in {"cp_mkdir", "cp_trunc", "cp_write"}}}

\* C18 (as claimed): in a process that was never killed, whenever
\* profiles.json is not in the middle of a write, it holds the entry of every
\* profile whose create_profile has answered Ok, also when two create_profile
\* calls ran at the same time.
C18_CatalogOnlyGrows ==
  (crashes = 0 /\ ~Malformed(catalogFile)) =>
     \A id \in ProfilesCreatedOk :
        \E e \in Elements(load_profiles(catalogFile).profiles) : e.id = id

\* The session open_profile makes of catalog entry p when it is given the
\* password p was created with.
SessionOfEntry(p) ==
  [id |-> p.id, db_path |-> p.db_path, key |-> derive_key(p, createdWith[p.id])]

\* The sessions of the profiles of the catalog.
CatalogSessions == {SessionOfEntry(p) : p \in Elements(load_profiles(catalogFile).profiles)}

\* C19: the slot holds no session or one, and that one is the session of one
\* profile of the catalog (id, db_path and key of the same entry); so is the
\* session an open_profile is about to install and the session a patient
\* command has cloned; the handle of a patient command has the db_path and
\* the key of the session that command cloned; and no patient command is
\* refused by its store at open_connection, as it would be under the key of
\* another profile.
C19_SessionIsOneProfile ==
  /\ Len(active_profile) <= 1
  /\ Elements(active_profile) \subseteq CatalogSessions
  /\ \A t \in Threads :
       /\ pc[t] \in {"op_lock", "op_set"} => SessionOf(local[t]) \in CatalogSessions
       /\ pc[t] \in {"d_conn"} \cup StatementSteps => local[t].active \in CatalogSessions
       /\ pc[t] \in StatementSteps =>
            <<local[t].conn.path, local[t].conn.key>> =
              <<local[t].active.db_path, <<local[t].active.key>>>>
  /\ ~(response.cmd \in DataCommands /\ response.stage = "connect")

\* C19 witness: a patient command runs its statement on the store of profile 1,
\* whose session it cloned, while the slot already holds the session of
\* profile 2 and the other thread is about to replace it again.
C19_Witness ==
  \E t, u \in Threads :
    /\ pc[t] \in StatementSteps /\ local[t].active.id = 1
    /\ active_profile # <<>> /\ active_profile[1].id = 2
    /\ pc[u] = "op_set" /\ mutex = u

=============================================================================
